---------------------------- MODULE Spec2Model ----------------------------
(***************************************************************************)
(* The xv6 buffer cache of kernel/bio.c: a fixed pool of buffers on a      *)
(* doubly linked recency list, a hash map from (dev, blockno) to buffers,  *)
(* the spinlock bcache.lock and one sleeplock per buffer.                  *)
(*                                                                         *)
(* Every caller runs one bio.c operation at a time and holds at most one   *)
(* buffer.  An operation is cut into steps at the points where other       *)
(* callers can interleave: taking bcache.lock, the critical section up to  *)
(* its release, taking the sleeplock, the device transfer.  A caller that  *)
(* panics stops for good; panic in bunpin leaves bcache.lock held.         *)
(*                                                                         *)
(* bpin is called by the caller that holds the buffer.  Under Spec bunpin  *)
(* is called only to take back a pin; under SpecAny it is called on any    *)
(* buffer.  bwrite and brelse are also called by callers that do not hold  *)
(* the buffer.  refcnt is a signed integer.                                *)
(***************************************************************************)
EXTENDS Integers, Sequences, FiniteSets

\* ------------------------------------------------------------- bounds
\* Number of buffers of the pool (NBUF of param.h, scaled down).
NBUF == 2
\* Number of concurrent callers.
NCallers == 2
\* Largest block number callers ask for.
MaxBlockno == 2
\* Largest number of outstanding pins per buffer.
MaxPins == 1
\* Largest number of bunpin calls that match no pin.
MaxUnmatched == 1
\* Largest size passed to set_cache_size.
MaxSize == 1

\* ------------------------------------------------------------- constants
DEFAULT_NBUF == 128

Bufs == 0 .. (NBUF - 1)
\* The list head bcache.head, a node that is no buffer of the pool.
HEAD == NBUF
Nodes == 0 .. NBUF
NULL == -1
Callers == 1 .. NCallers
NOBODY == 0
\* The (dev, blockno) pairs callers ask for: block n of device n % 2.
Keys == {<<n % 2, n>> : n \in 0 .. MaxBlockno}
NoKey == <<-1, -1>>

VARIABLES
  \* struct buf fields, per buffer
  dev, blockno, valid, refcnt,
  \* recency list links over Nodes (bcache.head and the buffers)
  next, prev,
  \* owner of each buffer's sleeplock (NOBODY when free)
  sleeplock,
  \* owner of bcache.lock (NOBODY when free)
  lock,
  \* bcache.cache_map: Keys -> Bufs \cup {NULL}
  cache_map,
  \* bcache.cache_size
  cache_size,
  \* per caller: position in the code, the key asked for, the local b
  pc, arg, b,
  \* history: how bget found the buffer the caller has: "hit" in the map, or
  \* recycled, with what had brought the victim's refcnt to 0 ("recycle_init":
  \* nothing since binit, "recycle_brelse", "recycle_bunpin"); else "none"
  how,
  \* history: bpin calls not yet matched by a bunpin call, per buffer
  pins,
  \* history: number of bunpin calls on a buffer with no outstanding pin
  unmatched,
  \* history: device reads of a buffer since bget last reset its valid flag
  reads,
  \* history: the buffers with refcnt = 0, the one longest at 0 first
  zeroSeq,
  \* history: the buffers whose refcnt has been 0 ever since binit
  sinceInit,
  \* history: the buffers whose refcnt was last brought to 0 by bunpin
  byUnpin,
  \* history: the buffers whose last transfer from the device failed
  failed

vars == <<dev, blockno, valid, refcnt, next, prev, sleeplock, lock, cache_map,
          cache_size, pc, arg, b, how, pins, unmatched, reads,
          zeroSeq, sinceInit, byUnpin, failed>>

bufvars == <<dev, blockno, valid, refcnt>>
listvars == <<next, prev>>
histvars == <<pins, unmatched, reads, zeroSeq, sinceInit, byUnpin, failed>>

\* ------------------------------------------------------------- hash map
\* hashmap_get: the buffer stored under the key, NULL when there is none.
hashmap_get(map, d, n) == map[<<d, n>>]

\* hashmap_put: store the buffer under the key, replacing an earlier entry.
hashmap_put(map, d, n, buf) == [map EXCEPT ![<<d, n>>] = buf]

\* hashmap_create: no key has an entry.
hashmap_create == [k \in Keys |-> NULL]

\* ------------------------------------------------------------- binit
\* One iteration of the loop of binit for buffer i, on the record st of the
\* links and the map.  The buffers are in static storage: dev = blockno = 0.
BinitStep(st, i) ==
  LET n1 == [st.next EXCEPT ![i] = st.next[HEAD]]
      p1 == [st.prev EXCEPT ![i] = HEAD]
      p2 == [p1 EXCEPT ![n1[HEAD]] = i]
      n2 == [n1 EXCEPT ![HEAD] = i]
  IN  [next |-> n2, prev |-> p2, map |-> hashmap_put(st.map, 0, 0, i)]

RECURSIVE BinitLoop(_, _)
BinitLoop(st, i) ==
  IF i >= NBUF THEN st ELSE BinitLoop(BinitStep(st, i), i + 1)

\* The state binit leaves.
Binit ==
  BinitLoop([next |-> [n \in Nodes |-> HEAD],
             prev |-> [n \in Nodes |-> HEAD],
             map  |-> hashmap_create], 0)

\* ------------------------------------------------------------- list
\* The buffers in scan order of bget: from bcache.head.prev along prev.
RECURSIVE ScanFrom(_, _)
ScanFrom(n, fuel) ==
  IF n = HEAD \/ fuel = 0 THEN <<>> ELSE <<n>> \o ScanFrom(prev[n], fuel - 1)

LruOrder == ScanFrom(prev[HEAD], NBUF + 1)

\* The same walk along next, from bcache.head.next.
RECURSIVE WalkNext(_, _)
WalkNext(n, fuel) ==
  IF n = HEAD \/ fuel = 0 THEN <<>> ELSE <<n>> \o WalkNext(next[n], fuel - 1)

MruOrder == WalkNext(next[HEAD], NBUF + 1)

\* Mutant: the recycling loop also takes a buffer with one reference.
RECURSIVE RecycleScan_referenced(_)
RecycleScan_referenced(n) ==
  IF n = HEAD THEN NULL
  ELSE IF refcnt[n] <= 1 THEN n
  ELSE RecycleScan_referenced(prev[n])

\* The recycling loop of bget: the first buffer with refcnt = 0 met from
\* bcache.head.prev along prev, NULL when the loop ends at the head.
RECURSIVE RecycleScan(_)
RecycleScan(n) ==
  IF n = HEAD THEN NULL
  ELSE IF refcnt[n] = 0 THEN n
  ELSE RecycleScan(prev[n])

\* Mutant: the recycling loop runs from bcache.head.next along next.
RECURSIVE RecycleScanNext(_)
RecycleScanNext(n) ==
  IF n = HEAD THEN NULL
  ELSE IF refcnt[n] = 0 THEN n
  ELSE RecycleScanNext(next[n])

Victim_mru == RecycleScanNext(next[HEAD])

\* Mutant: bget recycles no buffer once cache_size buffers are referenced.
Victim_sized ==
  IF Cardinality({x \in Bufs : refcnt[x] > 0}) >= cache_size
  THEN NULL
  ELSE RecycleScan(prev[HEAD])

Victim == RecycleScan(prev[HEAD])

\* Mutant: brelse moves the buffer to the back of the list (before
\* bcache.head).
MoveToHead_toback(x) ==
  LET p1 == [prev EXCEPT ![next[x]] = prev[x]]
      n1 == [next EXCEPT ![p1[x]] = next[x]]
      n2 == [n1 EXCEPT ![x] = HEAD]
      p2 == [p1 EXCEPT ![x] = p1[HEAD]]
      n3 == [n2 EXCEPT ![p2[x]] = x]
      p3 == [p2 EXCEPT ![HEAD] = x]
  IN  [next |-> n3, prev |-> p3]

\* Mutant: the move to the front without bcache.head.next->prev = b.
MoveToHead_noprev(x) ==
  LET p1 == [prev EXCEPT ![next[x]] = prev[x]]
      n1 == [next EXCEPT ![p1[x]] = next[x]]
      n2 == [n1 EXCEPT ![x] = n1[HEAD]]
      p2 == [p1 EXCEPT ![x] = HEAD]
      n3 == [n2 EXCEPT ![HEAD] = x]
  IN  [next |-> n3, prev |-> p2]

\* brelse's move of buffer x to the front of the list (after bcache.head).
MoveToHead(x) ==
  LET p1 == [prev EXCEPT ![next[x]] = prev[x]]
      n1 == [next EXCEPT ![p1[x]] = next[x]]
      n2 == [n1 EXCEPT ![x] = n1[HEAD]]
      p2 == [p1 EXCEPT ![x] = HEAD]
      p3 == [p2 EXCEPT ![n2[HEAD]] = x]
      n3 == [n2 EXCEPT ![HEAD] = x]
  IN  [next |-> n3, prev |-> p3]

\* holdingsleep(&x->lock) for caller c.
holdingsleep(c, x) == sleeplock[x] = c

\* ------------------------------------------------------------- history
\* The refcnt of buffer x goes from old to new; unpin tells a step of bunpin.
RECURSIVE Without(_, _)
Without(s, x) ==
  IF s = <<>> THEN <<>>
  ELSE IF Head(s) = x THEN Without(Tail(s), x)
  ELSE <<Head(s)>> \o Without(Tail(s), x)

NoteRefcnt(x, old, new, unpin) ==
  /\ zeroSeq' = IF new = 0 /\ old # 0 THEN Append(zeroSeq, x)
                ELSE IF new # 0 THEN Without(zeroSeq, x)
                ELSE zeroSeq
  /\ sinceInit' = sinceInit \ {x}
  /\ byUnpin' = IF new = 0 /\ unpin THEN byUnpin \cup {x} ELSE byUnpin \ {x}

\* What had brought the refcnt of buffer x, now recycled, to 0.
RecycleKind(x) ==
  IF x \in sinceInit THEN "recycle_init"
  ELSE IF x \in byUnpin THEN "recycle_bunpin"
  ELSE "recycle_brelse"

RecycleKinds == {"recycle_init", "recycle_brelse", "recycle_bunpin"}

\* ------------------------------------------------------------- Init
Init ==
  /\ dev = [x \in Bufs |-> 0]
  /\ blockno = [x \in Bufs |-> 0]
  /\ valid = [x \in Bufs |-> FALSE]
  /\ refcnt = [x \in Bufs |-> 0]
  /\ next = Binit.next
  /\ prev = Binit.prev
  /\ cache_map = Binit.map
  /\ cache_size = DEFAULT_NBUF
  /\ sleeplock = [x \in Bufs |-> NOBODY]
  /\ lock = NOBODY
  /\ pc = [c \in Callers |-> "idle"]
  /\ arg = [c \in Callers |-> NoKey]
  /\ b = [c \in Callers |-> NULL]
  /\ how = [c \in Callers |-> "none"]
  /\ pins = [x \in Bufs |-> 0]
  /\ unmatched = 0
  /\ reads = [x \in Bufs |-> 0]
  /\ zeroSeq = [i \in 1 .. NBUF |-> i - 1]
  /\ sinceInit = Bufs
  /\ byUnpin = {}
  /\ failed = {}

\* ------------------------------------------------------------- bget
\* bread(dev, blockno) -> bget: acquire(&bcache.lock).
bget_acquire(c, k) ==
  /\ pc[c] = "idle"
  /\ lock = NOBODY
  /\ lock' = c
  /\ pc' = [pc EXCEPT ![c] = "bget_cs"]
  /\ arg' = [arg EXCEPT ![c] = k]
  /\ UNCHANGED <<bufvars, listvars, sleeplock, cache_map, cache_size, b, how,
                 histvars>>

\* What the lookup of the caller's key in the hash map gives.
Lookup(c) == hashmap_get(cache_map, arg[c][1], arg[c][2])

\* Mutant: bget recycles a buffer and does not enter it in the map.
MapAfterRecycle_noput(map, d, n, x) == map

\* The map after bget has given buffer x to key (d, n).
MapAfterRecycle(map, d, n, x) == hashmap_put(map, d, n, x)

\* Mutant: the hit path does not count the reference.
bget_hit_nocount(c) ==
  /\ pc[c] = "bget_cs"
  /\ Lookup(c) # NULL
  /\ b' = [b EXCEPT ![c] = Lookup(c)]
  /\ how' = [how EXCEPT ![c] = "hit"]
  /\ lock' = NOBODY
  /\ pc' = [pc EXCEPT ![c] = "bget_sleep"]
  /\ UNCHANGED <<bufvars, listvars, sleeplock, cache_map, cache_size, arg,
                 histvars>>

\* Mutant: the hit path goes to acquiresleep with bcache.lock still held.
bget_hit_keeplock(c) ==
  /\ pc[c] = "bget_cs"
  /\ Lookup(c) # NULL
  /\ LET x == Lookup(c) IN
       /\ refcnt' = [refcnt EXCEPT ![x] = @ + 1]
       /\ b' = [b EXCEPT ![c] = x]
       /\ NoteRefcnt(x, refcnt[x], refcnt[x] + 1, FALSE)
  /\ how' = [how EXCEPT ![c] = "hit"]
  /\ pc' = [pc EXCEPT ![c] = "bget_sleep"]
  /\ UNCHANGED <<dev, blockno, valid, listvars, sleeplock, lock, cache_map,
                 cache_size, arg, pins, unmatched, reads, failed>>

\* The key is in the map: count the reference, release bcache.lock.
bget_hit(c) ==
  /\ pc[c] = "bget_cs"
  /\ Lookup(c) # NULL
  /\ LET x == Lookup(c) IN
       /\ refcnt' = [refcnt EXCEPT ![x] = @ + 1]
       /\ b' = [b EXCEPT ![c] = x]
       /\ NoteRefcnt(x, refcnt[x], refcnt[x] + 1, FALSE)
  /\ how' = [how EXCEPT ![c] = "hit"]
  /\ lock' = NOBODY
  /\ pc' = [pc EXCEPT ![c] = "bget_sleep"]
  /\ UNCHANGED <<dev, blockno, valid, listvars, sleeplock, cache_map,
                 cache_size, arg, pins, unmatched, reads, failed>>

\* The key is not in the map: recycle the first unreferenced buffer of the
\* scan, enter it in the map, release bcache.lock.
bget_recycle(c) ==
  /\ pc[c] = "bget_cs"
  /\ Lookup(c) = NULL
  /\ Victim # NULL
  /\ LET x == Victim IN
       /\ dev' = [dev EXCEPT ![x] = arg[c][1]]
       /\ blockno' = [blockno EXCEPT ![x] = arg[c][2]]
       /\ valid' = [valid EXCEPT ![x] = FALSE]
       /\ refcnt' = [refcnt EXCEPT ![x] = 1]
       /\ cache_map' = MapAfterRecycle(cache_map, arg[c][1], arg[c][2], x)
       /\ b' = [b EXCEPT ![c] = x]
       /\ reads' = [reads EXCEPT ![x] = 0]
       /\ failed' = failed \ {x}
       /\ NoteRefcnt(x, refcnt[x], 1, FALSE)
  /\ how' = [how EXCEPT ![c] = RecycleKind(Victim)]
  /\ lock' = NOBODY
  /\ pc' = [pc EXCEPT ![c] = "bget_sleep"]
  /\ UNCHANGED <<listvars, sleeplock, cache_size, arg, pins, unmatched>>

\* The key is not in the map and the scan ends at the head: release
\* bcache.lock, panic("bget: no buffers").
bget_nobufs(c) ==
  /\ pc[c] = "bget_cs"
  /\ Lookup(c) = NULL
  /\ Victim = NULL
  /\ lock' = NOBODY
  /\ pc' = [pc EXCEPT ![c] = "panic_bget"]
  /\ UNCHANGED <<bufvars, listvars, sleeplock, cache_map, cache_size, arg, b,
                 how, histvars>>

\* Mutant: bget returns the buffer without waiting for its sleeplock.
bget_acquiresleep_nowait(c) ==
  /\ pc[c] = "bget_sleep"
  /\ sleeplock' = [sleeplock EXCEPT ![b[c]] = c]
  /\ pc' = [pc EXCEPT ![c] = "bread"]
  /\ UNCHANGED <<bufvars, listvars, lock, cache_map, cache_size, arg, b, how,
                 histvars>>

\* acquiresleep(&b->lock): wait until the sleeplock is free, take it, return b.
bget_acquiresleep(c) ==
  /\ pc[c] = "bget_sleep"
  /\ sleeplock[b[c]] = NOBODY
  /\ sleeplock' = [sleeplock EXCEPT ![b[c]] = c]
  /\ pc' = [pc EXCEPT ![c] = "bread"]
  /\ UNCHANGED <<bufvars, listvars, lock, cache_map, cache_size, arg, b, how,
                 histvars>>

\* ------------------------------------------------------------- bread
\* Mutant: bread reads the device whatever the valid flag says.
MustRead_always(x) == TRUE

\* if(!b->valid): the condition under which bread reads the device.
MustRead(x) == ~valid[x]

\* The buffer is valid: bread returns it.
bread_valid(c) ==
  /\ pc[c] = "bread"
  /\ ~MustRead(b[c])
  /\ pc' = [pc EXCEPT ![c] = "held"]
  /\ UNCHANGED <<bufvars, listvars, sleeplock, lock, cache_map, cache_size,
                 arg, b, how, histvars>>

\* The buffer is not valid: virtio_disk_rw(b, 0).
bread_read(c) ==
  /\ pc[c] = "bread"
  /\ MustRead(b[c])
  /\ reads' = [reads EXCEPT ![b[c]] = IF @ < 2 THEN @ + 1 ELSE @]
  /\ pc' = [pc EXCEPT ![c] = "bread_io"]
  /\ UNCHANGED <<bufvars, listvars, sleeplock, lock, cache_map, cache_size,
                 arg, b, how, pins, unmatched, zeroSeq, sinceInit,
                 byUnpin, failed>>

\* The transfer is over: b->valid = 1, bread returns the buffer.
bread_setvalid(c) ==
  /\ pc[c] = "bread_io"
  /\ valid' = [valid EXCEPT ![b[c]] = TRUE]
  /\ pc' = [pc EXCEPT ![c] = "held"]
  /\ UNCHANGED <<dev, blockno, refcnt, listvars, sleeplock, lock, cache_map,
                 cache_size, arg, b, how, histvars>>

\* The transfer is over and the device has failed it: virtio_disk_rw returns
\* nothing, so bread goes on as after a transfer that succeeded.
bread_setvalid_failed(c) ==
  /\ pc[c] = "bread_io"
  /\ valid' = [valid EXCEPT ![b[c]] = TRUE]
  /\ failed' = failed \cup {b[c]}
  /\ pc' = [pc EXCEPT ![c] = "held"]
  /\ UNCHANGED <<dev, blockno, refcnt, listvars, sleeplock, lock, cache_map,
                 cache_size, arg, b, how, pins, unmatched, reads, zeroSeq,
                 sinceInit, byUnpin>>

\* ------------------------------------------------------------- bwrite
\* Mutant: bwrite without the holdingsleep check.
bwrite_nocheck(c, x) ==
  /\ \/ pc[c] = "idle"
     \/ pc[c] = "held" /\ b[c] = x
  /\ pc' = [pc EXCEPT ![c] = "bwrite_io"]
  /\ UNCHANGED <<bufvars, listvars, sleeplock, lock, cache_map, cache_size,
                 arg, b, how, histvars>>

\* bwrite(x) by caller c: the holdingsleep check; the holder enters
\* virtio_disk_rw(b, 1).
bwrite(c, x) ==
  /\ \/ pc[c] = "idle"
     \/ pc[c] = "held" /\ b[c] = x
  /\ IF ~holdingsleep(c, x)
     THEN pc' = [pc EXCEPT ![c] = "panic_bwrite"]
     ELSE pc' = [pc EXCEPT ![c] = "bwrite_io"]
  /\ UNCHANGED <<bufvars, listvars, sleeplock, lock, cache_map, cache_size,
                 arg, b, how, histvars>>

\* The transfer is over: bwrite returns.
bwrite_done(c) ==
  /\ pc[c] = "bwrite_io"
  /\ pc' = [pc EXCEPT ![c] = "held"]
  /\ UNCHANGED <<bufvars, listvars, sleeplock, lock, cache_map, cache_size,
                 arg, b, how, histvars>>

\* ------------------------------------------------------------- brelse
\* Mutant: brelse without releasesleep.
brelse_keepsleep(c, x) ==
  /\ \/ pc[c] = "idle"
     \/ pc[c] = "held" /\ b[c] = x
  /\ IF ~holdingsleep(c, x)
     THEN pc' = [pc EXCEPT ![c] = "panic_brelse"]
     ELSE pc' = [pc EXCEPT ![c] = "brelse_acq"]
  /\ UNCHANGED <<bufvars, listvars, sleeplock, lock, cache_map, cache_size,
                 arg, b, how, histvars>>

\* brelse(x) by caller c: the holdingsleep check and releasesleep.
brelse(c, x) ==
  /\ \/ pc[c] = "idle"
     \/ pc[c] = "held" /\ b[c] = x
  /\ IF ~holdingsleep(c, x)
     THEN /\ pc' = [pc EXCEPT ![c] = "panic_brelse"]
          /\ UNCHANGED sleeplock
     ELSE /\ sleeplock' = [sleeplock EXCEPT ![x] = NOBODY]
          /\ pc' = [pc EXCEPT ![c] = "brelse_acq"]
  /\ UNCHANGED <<bufvars, listvars, lock, cache_map, cache_size, arg, b, how,
                 histvars>>

\* acquire(&bcache.lock) in brelse.
brelse_acquire(c) ==
  /\ pc[c] = "brelse_acq"
  /\ lock = NOBODY
  /\ lock' = c
  /\ pc' = [pc EXCEPT ![c] = "brelse_cs"]
  /\ UNCHANGED <<bufvars, listvars, sleeplock, cache_map, cache_size, arg, b,
                 how, histvars>>

\* Mutant: brelse leaves the buffer where it is in the list.
LinksAfterRelease_nomove(x, r) == [next |-> next, prev |-> prev]

\* The links after brelse has brought the refcnt of x to r.
LinksAfterRelease(x, r) ==
  IF r = 0 THEN MoveToHead(x) ELSE [next |-> next, prev |-> prev]

\* b->refcnt--, the move to the front when it reached 0, release(&bcache.lock).
brelse_body(c) ==
  /\ pc[c] = "brelse_cs"
  /\ LET x == b[c]
         r == refcnt[x] - 1
     IN  /\ refcnt' = [refcnt EXCEPT ![x] = r]
         /\ next' = LinksAfterRelease(x, r).next
         /\ prev' = LinksAfterRelease(x, r).prev
         /\ NoteRefcnt(x, refcnt[x], r, FALSE)
  /\ lock' = NOBODY
  /\ pc' = [pc EXCEPT ![c] = "idle"]
  /\ arg' = [arg EXCEPT ![c] = NoKey]
  /\ b' = [b EXCEPT ![c] = NULL]
  /\ how' = [how EXCEPT ![c] = "none"]
  /\ UNCHANGED <<dev, blockno, valid, sleeplock, cache_map, cache_size, pins,
                 unmatched, reads, failed>>

\* ------------------------------------------------------------- bpin
\* bpin(b) by the caller that holds b: acquire(&bcache.lock).
bpin_acquire(c) ==
  /\ pc[c] = "held"
  /\ pins[b[c]] < MaxPins
  /\ lock = NOBODY
  /\ lock' = c
  /\ pc' = [pc EXCEPT ![c] = "bpin_cs"]
  /\ UNCHANGED <<bufvars, listvars, sleeplock, cache_map, cache_size, arg, b,
                 how, histvars>>

\* Mutant: bpin does not count the pin.
PinnedRefcnt_same(r) == r

\* The refcnt of a buffer after bpin.
PinnedRefcnt(r) == r + 1

\* b->refcnt++, release(&bcache.lock).
bpin_body(c) ==
  /\ pc[c] = "bpin_cs"
  /\ LET x == b[c] IN
       /\ refcnt' = [refcnt EXCEPT ![x] = PinnedRefcnt(@)]
       /\ pins' = [pins EXCEPT ![x] = @ + 1]
       /\ NoteRefcnt(x, refcnt[x], PinnedRefcnt(refcnt[x]), FALSE)
  /\ lock' = NOBODY
  /\ pc' = [pc EXCEPT ![c] = "held"]
  /\ UNCHANGED <<dev, blockno, valid, listvars, sleeplock, cache_map,
                 cache_size, arg, b, how, unmatched, reads, failed>>

\* ------------------------------------------------------------- bunpin
\* bunpin(x) by caller c, which holds x or holds no buffer:
\* acquire(&bcache.lock).  The call uses up one outstanding pin of x.
bunpin_acquire(c, x) ==
  /\ \/ pc[c] = "idle"
     \/ pc[c] = "held" /\ b[c] = x
  /\ lock = NOBODY
  /\ lock' = c
  /\ pc' = [pc EXCEPT ![c] = "bunpin_cs"]
  /\ b' = [b EXCEPT ![c] = x]
  /\ pins' = [pins EXCEPT ![x] = IF @ > 0 THEN @ - 1 ELSE @]
  /\ unmatched' = IF pins[x] = 0 THEN unmatched + 1 ELSE unmatched
  /\ UNCHANGED <<bufvars, listvars, sleeplock, cache_map, cache_size, arg, how,
                 reads, zeroSeq, sinceInit, byUnpin, failed>>

\* Mutant: bunpin without the check of refcnt.
UnpinPanics_never(r) == FALSE

\* if (b->refcnt <= 0): the condition under which bunpin panics.
UnpinPanics(r) == r <= 0

\* The check, then b->refcnt-- and release(&bcache.lock); the panic leaves
\* bcache.lock held.
bunpin_body(c) ==
  /\ pc[c] = "bunpin_cs"
  /\ LET x == b[c] IN
       IF UnpinPanics(refcnt[x])
       THEN /\ pc' = [pc EXCEPT ![c] = "panic_bunpin"]
            /\ UNCHANGED <<refcnt, lock, b, zeroSeq, sinceInit, byUnpin>>
       ELSE /\ refcnt' = [refcnt EXCEPT ![x] = @ - 1]
            /\ NoteRefcnt(x, refcnt[x], refcnt[x] - 1, TRUE)
            /\ lock' = NOBODY
            /\ pc' = [pc EXCEPT ![c] = IF arg[c] = NoKey THEN "idle" ELSE "held"]
            /\ b' = [b EXCEPT ![c] = IF arg[c] = NoKey THEN NULL ELSE @]
  /\ UNCHANGED <<dev, blockno, valid, listvars, sleeplock, cache_map,
                 cache_size, arg, how, pins, unmatched, reads, failed>>

\* ------------------------------------------------------------- set_cache_size
\* The sizes callers pass to set_cache_size.
Sizes == 0 .. MaxSize

\* set_cache_size(size): acquire(&bcache.lock), bcache.cache_size = size,
\* release(&bcache.lock); nothing can come between.
set_cache_size(c, size) ==
  /\ pc[c] \in {"idle", "held"}
  /\ lock = NOBODY
  /\ cache_size' = size
  /\ UNCHANGED <<bufvars, listvars, sleeplock, lock, cache_map, pc, arg, b,
                 how, histvars>>

\* ------------------------------------------------------------- Next
\* The steps every caller can take, whatever buffer bunpin is called on.
Steps ==
  \/ \E c \in Callers, k \in Keys : bget_acquire(c, k)
  \/ \E c \in Callers : bget_hit(c)
  \/ \E c \in Callers : bget_recycle(c)
  \/ \E c \in Callers : bget_nobufs(c)
  \/ \E c \in Callers : bget_acquiresleep(c)
  \/ \E c \in Callers : bread_valid(c)
  \/ \E c \in Callers : bread_read(c)
  \/ \E c \in Callers : bread_setvalid(c)
  \/ \E c \in Callers, x \in Bufs : bwrite(c, x)
  \/ \E c \in Callers : bwrite_done(c)
  \/ \E c \in Callers, x \in Bufs : brelse(c, x)
  \/ \E c \in Callers : brelse_acquire(c)
  \/ \E c \in Callers : brelse_body(c)
  \/ \E c \in Callers : bpin_acquire(c)
  \/ \E c \in Callers : bpin_body(c)
  \/ \E c \in Callers : bunpin_body(c)

\* Callers that call bunpin only to take back a pin made by bpin.
Next ==
  \/ Steps
  \/ \E c \in Callers, x \in Bufs : pins[x] > 0 /\ bunpin_acquire(c, x)

Spec == Init /\ [][Next]_vars

\* Callers that call bunpin on any buffer, pinned or not.
NextAny ==
  \/ Steps
  \/ \E c \in Callers, x \in Bufs :
       (pins[x] > 0 \/ unmatched < MaxUnmatched) /\ bunpin_acquire(c, x)

SpecAny == Init /\ [][NextAny]_vars

\* Callers of Spec that also call set_cache_size.
NextSize ==
  \/ Next
  \/ \E c \in Callers, size \in Sizes : set_cache_size(c, size)

SpecSize == Init /\ [][NextSize]_vars

\* Callers of Spec over a device whose transfers can fail.
NextIo ==
  \/ Next
  \/ \E c \in Callers : bread_setvalid_failed(c)

SpecIo == Init /\ [][NextIo]_vars

\* ------------------------------------------------------------- fairness
\* bread(dev, blockno) is called: the caller reaches acquire(&bcache.lock) of
\* bget and spins there until the lock is free.
bread_call(c, k) ==
  /\ pc[c] = "idle"
  /\ pc' = [pc EXCEPT ![c] = "bget_acq"]
  /\ arg' = [arg EXCEPT ![c] = k]
  /\ UNCHANGED <<bufvars, listvars, sleeplock, lock, cache_map, cache_size, b,
                 how, histvars>>

\* acquire(&bcache.lock) in bget, by a caller that spins on it.
bget_acquire_waiting(c) ==
  /\ pc[c] = "bget_acq"
  /\ lock = NOBODY
  /\ lock' = c
  /\ pc' = [pc EXCEPT ![c] = "bget_cs"]
  /\ UNCHANGED <<bufvars, listvars, sleeplock, cache_map, cache_size, arg, b,
                 how, histvars>>

\* brelse and bwrite called by the caller on the buffer bread returned to it.
brelse_held(c) == pc[c] = "held" /\ brelse(c, b[c])

bwrite_held(c) == pc[c] = "held" /\ bwrite(c, b[c])

\* bunpin called to take back a pin made by bpin.
bunpin_pinned(c, x) == pins[x] > 0 /\ bunpin_acquire(c, x)

\* The steps of caller c that wait for nothing: they are taken as soon as the
\* caller is scheduled (for bread_setvalid and bwrite_done: as soon as the
\* device has completed the transfer).
Running(c) ==
  \/ bget_hit(c)
  \/ bget_recycle(c)
  \/ bget_nobufs(c)
  \/ bread_valid(c)
  \/ bread_read(c)
  \/ bread_setvalid(c)
  \/ bwrite_done(c)
  \/ brelse_body(c)
  \/ bpin_body(c)
  \/ bunpin_body(c)

\* Callers that keep to the protocol: one buffer at a time, bwrite and brelse
\* only on the buffer held, bunpin only for an earlier bpin.
NextLive ==
  \/ \E c \in Callers, k \in Keys : bread_call(c, k)
  \/ \E c \in Callers : bget_acquire_waiting(c)
  \/ \E c \in Callers : bget_acquiresleep(c)
  \/ \E c \in Callers : Running(c)
  \/ \E c \in Callers : bwrite_held(c)
  \/ \E c \in Callers : brelse_held(c)
  \/ \E c \in Callers : brelse_acquire(c)
  \/ \E c \in Callers : bpin_acquire(c)
  \/ \E c \in Callers, x \in Bufs : bunpin_pinned(c, x)

\* The steps in which caller c waits: it spins on bcache.lock, or it is asleep
\* in acquiresleep.
Waiting(c) ==
  \/ bget_acquire_waiting(c)
  \/ brelse_acquire(c)
  \/ bget_acquiresleep(c)

\* Fair scheduling: a caller that can run does run.  Fair locks: a caller that
\* waits for bcache.lock or for a sleeplock gets it when the lock is free again
\* and again.  Every caller that holds a buffer calls brelse on it in the end.
Fairness ==
  \A c \in Callers :
    /\ WF_vars(Running(c))
    /\ SF_vars(Waiting(c))
    /\ SF_vars(brelse_held(c))

SpecLive == Init /\ [][NextLive]_vars /\ Fairness

\* ------------------------------------------------------------- claims
\* The key a buffer carries in its dev and blockno fields.
KeyOf(x) == <<dev[x], blockno[x]>>

\* Caller c is between the return of bget and the releasesleep of brelse with
\* buffer b[c]: it uses the buffer as its own.
InUse(c) ==
  \/ pc[c] \in {"bread", "bread_io", "held", "bwrite_io", "bpin_cs"}
  \/ pc[c] \in {"bunpin_cs", "panic_bunpin"} /\ arg[c] # NoKey

\* Caller c has been given buffer b[c] by the lookup or the recycling of bget
\* and has not released it.
Obtained(c) == pc[c] = "bget_sleep" \/ InUse(c)

\* C1: for every key (dev, blockno) at most one buffer carries the key in its
\* dev and blockno fields with refcnt > 0, in every reachable state, whatever
\* buffers bunpin is called on.
C1_OneLiveBufferPerKey ==
  \A x, y \in Bufs :
    (x # y /\ refcnt[x] > 0 /\ refcnt[y] > 0) => KeyOf(x) # KeyOf(y)

\* C1 witness: two buffers are referenced at once, one of them twice, and
\* both have been recycled for a key.
C1_Witness ==
  \E x, y \in Bufs :
    /\ x # y /\ refcnt[x] > 1 /\ refcnt[y] > 0
    /\ hashmap_get(cache_map, dev[x], blockno[x]) = x
    /\ hashmap_get(cache_map, dev[y], blockno[y]) = y
    /\ sinceInit = {}

\* C2 (as claimed): a buffer bread has returned to a caller carries the dev
\* and blockno the caller asked for, is valid, and its sleeplock is the
\* caller's.
C2_BreadReturnsRequestedBlock ==
  \A c \in Callers :
    pc[c] = "held" =>
      /\ dev[b[c]] = arg[c][1]
      /\ blockno[b[c]] = arg[c][2]
      /\ valid[b[c]]
      /\ holdingsleep(c, b[c])

\* C3: callers that bget has given a buffer for the same key have the same
\* buffer, and no two callers use the same buffer at once; the caller that
\* uses a buffer owns its sleeplock.
C3_SameBufferOneUser ==
  /\ \A c1, c2 \in Callers :
       (Obtained(c1) /\ Obtained(c2) /\ arg[c1] = arg[c2] /\ arg[c1] # NoKey)
         => b[c1] = b[c2]
  /\ \A c1, c2 \in Callers :
       (c1 # c2 /\ InUse(c1) /\ InUse(c2)) => b[c1] # b[c2]
  /\ \A c \in Callers : InUse(c) => holdingsleep(c, b[c])

\* C3 witness: one caller uses the buffer of a key while another caller,
\* given the same buffer for the same key, waits for its sleeplock.
C3_Witness ==
  \E c1, c2 \in Callers :
    /\ c1 # c2
    /\ pc[c1] = "held" /\ pc[c2] = "bget_sleep"
    /\ arg[c1] = arg[c2]
    /\ b[c1] = b[c2]
    /\ refcnt[b[c1]] = 2

\* Every buffer of the pool is referenced.
AllReferenced == \A x \in Bufs : refcnt[x] > 0

\* No referenced buffer carries key k.
KeyUnreferenced(k) == \A x \in Bufs : refcnt[x] > 0 => KeyOf(x) # k

\* The step in which caller c leaves the critical section of bget.
BgetStep(c) == pc[c] = "bget_cs" /\ pc'[c] # "bget_cs"

\* The step in which the bget of caller c recycles buffer x.
RecycleStep(c, x) ==
  /\ BgetStep(c)
  /\ pc'[c] = "bget_sleep"
  /\ how'[c] \in RecycleKinds
  /\ b'[c] = x

\* C4 (as claimed): a bget for a key that no referenced buffer carries, made
\* when every buffer of the pool is referenced, ends in the panic
\* "bget: no buffers".
C4_ExhaustedPoolPanics ==
  [][\A c \in Callers :
       (BgetStep(c) /\ AllReferenced /\ KeyUnreferenced(arg[c]))
         => pc'[c] = "panic_bget"]_vars

\* A pin of buffer x made by bpin has not been taken back by bunpin: it is
\* counted in pins, or a bunpin call for it has not yet decremented refcnt.
PinOutstanding(x) ==
  \/ pins[x] > 0
  \/ \E c \in Callers : pc[c] = "bunpin_cs" /\ b[c] = x

\* The place of buffer x in sequence q (0 when it is not in q).
PlaceIn(q, x) ==
  IF \E i \in 1 .. Len(q) : q[i] = x
  THEN CHOOSE i \in 1 .. Len(q) : q[i] = x
  ELSE 0

\* C5: while a pin of a buffer is outstanding its refcnt is positive, no step
\* changes its dev or blockno or resets its valid flag, and bget recycles a
\* buffer only when its refcnt is 0 and no pin of it is outstanding.
C5_PinnedNeverRecycled ==
  /\ [](\A x \in Bufs : PinOutstanding(x) => refcnt[x] > 0)
  /\ [][\A x \in Bufs :
          /\ PinOutstanding(x) =>
               /\ dev'[x] = dev[x]
               /\ blockno'[x] = blockno[x]
               /\ valid[x] => valid'[x]
          /\ (\E c \in Callers : RecycleStep(c, x)) =>
               refcnt[x] = 0 /\ ~PinOutstanding(x)]_vars

\* C5 witness: a bget has just recycled a buffer although a pinned buffer
\* that nobody holds came before it in the scan.
C5_Witness ==
  \E c \in Callers, x \in Bufs :
    /\ pc[c] = "bget_sleep" /\ how[c] \in RecycleKinds
    /\ b[c] # x
    /\ pins[x] > 0 /\ refcnt[x] = pins[x]
    /\ PlaceIn(LruOrder, x) < PlaceIn(LruOrder, b[c])

\* Buffer u has been at refcnt = 0 strictly longer than buffer x; buffers at
\* 0 ever since binit have been there equally long.
LongerAtZero(u, x) ==
  /\ PlaceIn(zeroSeq, u) > 0
  /\ PlaceIn(zeroSeq, u) < PlaceIn(zeroSeq, x)
  /\ ~(u \in sinceInit /\ x \in sinceInit)

\* C6 (as claimed): the buffer bget recycles is the one that has been at
\* refcnt = 0 the longest, however its refcnt came to 0.
C6_VictimLongestAtZero ==
  [][\A c \in Callers, x \in Bufs :
       RecycleStep(c, x) => \A u \in Bufs : ~LongerAtZero(u, x)]_vars

\* C6 (amended): the buffer bget recycles is the buffer with refcnt = 0
\* nearest the bcache.head.prev end of the list; unless bunpin brought its
\* refcnt to 0, it is the one that has been at refcnt = 0 the longest.
C6_VictimLruAmongReleased ==
  [][\A c \in Callers, x \in Bufs :
       RecycleStep(c, x) =>
         /\ refcnt[x] = 0
         /\ \A u \in Bufs :
              refcnt[u] = 0 => PlaceIn(LruOrder, x) <= PlaceIn(LruOrder, u)
         /\ x \notin byUnpin => \A u \in Bufs : ~LongerAtZero(u, x)]_vars

\* C6 witness: a bget has just recycled a buffer that brelse had brought to
\* refcnt = 0, while another buffer, released by brelse after it, is still
\* at refcnt = 0.
C6_Witness ==
  \E c \in Callers, u \in Bufs :
    /\ pc[c] = "bget_sleep" /\ how[c] = "recycle_brelse"
    /\ u # b[c]
    /\ refcnt[u] = 0 /\ u \notin sinceInit /\ u \notin byUnpin

\* C7: a buffer is read from the device at most once between two resets of
\* its valid flag by bget: a valid buffer has been read exactly once, and a
\* buffer read but not yet valid is in the hands of the caller reading it.
C7_OneReadPerValidation ==
  \A x \in Bufs :
    /\ reads[x] <= 1
    /\ valid[x] => reads[x] = 1
    /\ (reads[x] = 1 /\ ~valid[x]) =>
         \E c \in Callers : pc[c] = "bread_io" /\ b[c] = x

\* C7 witness: a bread that found its key in the map has returned a buffer
\* that was read once, by an earlier bread, and released in between.
C7_Witness ==
  \E c \in Callers :
    /\ pc[c] = "held" /\ how[c] = "hit"
    /\ KeyOf(b[c]) = arg[c]
    /\ refcnt[b[c]] = 1 /\ pins[b[c]] = 0
    /\ reads[b[c]] = 1 /\ valid[b[c]]
    /\ b[c] \notin sinceInit

\* C8: a recycling step of bget changes, besides the victim, only the map
\* entry of the new key: every other buffer keeps dev, blockno, valid, refcnt
\* and its sleeplock, and the list links stay as they are.  The key of every
\* valid buffer is mapped to that buffer; the buffer a caller holds or
\* releases is valid, and only the recycling of a buffer resets its valid
\* flag.  Of two buffers that brelse brought to refcnt = 0, the one released
\* first is recycled first.
C8_RecycleFrame ==
  /\ [](\A x \in Bufs :
          valid[x] => hashmap_get(cache_map, dev[x], blockno[x]) = x)
  /\ [](\A c \in Callers :
          pc[c] \in {"held", "brelse_acq", "brelse_cs"} => valid[b[c]])
  /\ [][\A x \in Bufs :
          /\ (valid[x] /\ ~valid'[x]) => \E c \in Callers : RecycleStep(c, x)
          /\ \A c \in Callers :
               RecycleStep(c, x) =>
                 /\ \A u \in Bufs \ {x} :
                      /\ dev'[u] = dev[u]
                      /\ blockno'[u] = blockno[u]
                      /\ valid'[u] = valid[u]
                      /\ refcnt'[u] = refcnt[u]
                 /\ UNCHANGED <<next, prev, sleeplock>>
                 /\ \A k \in Keys \ {arg[c]} : cache_map'[k] = cache_map[k]
                 /\ \A u \in Bufs \ {x} :
                      (/\ refcnt[u] = 0
                       /\ {u, x} \cap (sinceInit \cup byUnpin) = {})
                        => PlaceIn(zeroSeq, x) < PlaceIn(zeroSeq, u)]_vars

\* C8 witness: a bget has just recycled a released buffer for a third key,
\* and the buffer released after it is still valid, unreferenced and mapped
\* from its own key.
C8_Witness ==
  \E c \in Callers, u \in Bufs :
    /\ pc[c] = "bget_sleep" /\ how[c] = "recycle_brelse"
    /\ u # b[c]
    /\ refcnt[u] = 0 /\ valid[u]
    /\ u \notin sinceInit /\ u \notin byUnpin
    /\ hashmap_get(cache_map, dev[u], blockno[u]) = u
    /\ KeyOf(u) # arg[c]
    /\ Cardinality({k \in Keys : cache_map[k] # NULL}) >= 3

\* C9: bwrite by a caller that does not hold the sleeplock of the buffer
\* ends in panic("bwrite") and never enters the device write; bwrite by the
\* holder enters the device write once and returns, and neither step changes
\* a refcnt, the list links, the map or a sleeplock.
C9_BwriteHolderOnly ==
  /\ [](\A c \in Callers :
          pc[c] = "bwrite_io" => b[c] \in Bufs /\ sleeplock[b[c]] = c)
  /\ [][\A c \in Callers :
          /\ (pc[c] \in {"idle", "held"}
                /\ pc'[c] \in {"bwrite_io", "panic_bwrite"}) =>
               /\ pc'[c] = "bwrite_io" <=>
                    (pc[c] = "held" /\ sleeplock[b[c]] = c)
               /\ UNCHANGED <<refcnt, next, prev, cache_map, sleeplock>>
          /\ (pc[c] = "bwrite_io" /\ pc'[c] # "bwrite_io") =>
               /\ pc'[c] = "held"
               /\ UNCHANGED <<refcnt, next, prev, cache_map, sleeplock>>]_vars

\* C9 witness: one caller is in the device write of the buffer it holds
\* while another, which held no buffer, has ended in panic("bwrite").
C9_Witness ==
  \E c1, c2 \in Callers :
    /\ pc[c1] = "bwrite_io" /\ sleeplock[b[c1]] = c1
    /\ pc[c2] = "panic_bwrite"

\* C10 (as claimed): no refcnt is ever negative, whatever buffers bunpin is
\* called on.
C10_RefcntNeverNegative == \A x \in Bufs : refcnt[x] >= 0

\* C10 (amended): bunpin on a buffer whose refcnt is 0 panics and leaves
\* every refcnt as it is, and no step of bunpin makes a refcnt negative; no
\* refcnt is negative as long as every bunpin call has taken back a pin.
C10_UnpinGuarded ==
  /\ [](unmatched = 0 => \A x \in Bufs : refcnt[x] >= 0)
  /\ [][\A c \in Callers :
          (pc[c] = "bunpin_cs" /\ pc'[c] # "bunpin_cs") =>
            /\ refcnt[b[c]] <= 0 =>
                 pc'[c] = "panic_bunpin" /\ refcnt' = refcnt
            /\ refcnt[b[c]] >= 0 => refcnt'[b[c]] >= 0]_vars

\* C10 witness: a bunpin call that matched no pin has found refcnt = 0 and
\* ended in the panic.
C10_Witness ==
  \E c \in Callers :
    /\ pc[c] = "panic_bunpin"
    /\ refcnt[b[c]] = 0
    /\ unmatched > 0

\* C11: a buffer is valid only if the last transfer from the device into it,
\* for the key it carries, succeeded: a failed read leaves valid false, so no
\* caller is returned a valid buffer after a failed transfer.
C11_FailedReadLeavesInvalid ==
  \A x \in Bufs : valid[x] => x \notin failed

\* C12: no caller holds bcache.lock while it waits in acquiresleep for a
\* buffer's sleeplock or is inside virtio_disk_rw: every operation has
\* released bcache.lock before it starts to acquire a sleeplock.
C12_NoBlockingUnderCacheLock ==
  \A c \in Callers :
    pc[c] \in {"bget_sleep", "bread_io", "bwrite_io"} => lock # c

\* C12 witness: a caller is blocked in acquiresleep on a buffer whose
\* sleeplock another caller holds, and that other caller is inside a critical
\* section of bcache.lock.
C12_Witness ==
  \E c, o \in Callers :
    /\ c # o
    /\ pc[c] = "bget_sleep"
    /\ sleeplock[b[c]] = o
    /\ lock = o

C14_IndexMatchesBuffers ==
  /\ \A k \in Keys : cache_map[k] # NULL => KeyOf(cache_map[k]) = k
  /\ \A k1, k2 \in Keys :
       (k1 # k2 /\ cache_map[k1] # NULL) => cache_map[k1] # cache_map[k2]

\* C15: as long as no refcnt has changed since binit, every refcnt is 0, the
\* list holds every buffer of the pool exactly once, and the hash map is
\* empty: the lookup of every key, key (0, 0) too, finds nothing.
C15_EmptyAfterBinit ==
  sinceInit = Bufs =>
    /\ \A x \in Bufs : refcnt[x] = 0
    /\ Len(LruOrder) = NBUF
    /\ {LruOrder[i] : i \in 1 .. Len(LruOrder)} = Bufs
    /\ \A k \in Keys : hashmap_get(cache_map, k[1], k[2]) = NULL

\* A step in which caller c, holder of b[c], passes the check of brelse.
BrelseReleaseStep(c) == pc[c] = "held" /\ pc'[c] = "brelse_acq"

\* A step in which caller c runs the critical section of brelse.
BrelseBodyStep(c) == pc[c] = "brelse_cs" /\ pc'[c] = "idle"

\* A step in which a call of brelse by caller c ends in the panic.
BrelsePanicStep(c) == pc[c] # "panic_brelse" /\ pc'[c] = "panic_brelse"

\* C16: brelse by the holder of the sleeplock releases the sleeplock, then
\* decrements the buffer's refcnt by exactly 1; when the refcnt reaches 0 the
\* buffer becomes the first of the list (the last one the recycling scan
\* reaches) and the others keep their order; when it stays above 0 the list
\* is unchanged.  Only the holder passes the check: a call that panics
\* changes no refcnt, no link and no sleeplock.
C16_BrelseEffect ==
  [][\A c \in Callers :
       /\ BrelseReleaseStep(c) =>
            /\ sleeplock[b[c]] = c
            /\ sleeplock' = [sleeplock EXCEPT ![b[c]] = NOBODY]
            /\ UNCHANGED <<refcnt, next, prev>>
       /\ BrelseBodyStep(c) =>
            /\ refcnt' = [refcnt EXCEPT ![b[c]] = @ - 1]
            /\ IF refcnt'[b[c]] = 0
               THEN /\ MruOrder' = <<b[c]>> \o Without(MruOrder, b[c])
                    /\ LruOrder' = Without(LruOrder, b[c]) \o <<b[c]>>
               ELSE UNCHANGED <<next, prev>>
       /\ BrelsePanicStep(c) =>
            /\ \A x \in Bufs : sleeplock[x] # c
            /\ UNCHANGED <<refcnt, next, prev, sleeplock>>
    ]_vars

\* C16 witness: brelse has brought the refcnt of buf[0], the last of the list
\* after binit, to 0 and the buffer is now the first of the list; the other
\* buffer went through a brelse that left it pinned; a caller that held no
\* sleeplock has called brelse and panicked.
C16_Witness ==
  /\ refcnt[0] = 0
  /\ 0 \notin (sinceInit \cup byUnpin)
  /\ next[HEAD] = 0
  /\ \E x \in Bufs : pins[x] > 0 /\ refcnt[x] = pins[x]
  /\ \E c \in Callers : pc[c] = "panic_brelse"

\* Buffer x has refcnt 0, it was brelse that brought it there, and no caller
\* has got it from bget since.
ReleasedByBrelse(x) ==
  /\ refcnt[x] = 0
  /\ x \notin sinceInit
  /\ x \notin byUnpin
  /\ \A c \in Callers :
       b[c] = x => ~(Obtained(c) \/ pc[c] \in {"brelse_acq", "brelse_cs"})

\* C17: in every reachable state, whatever buffers bunpin is called on, the
\* list is a permutation of the pool, the next and prev links agree, and the
\* buffers with refcnt 0 that brelse released stand in the list from the most
\* recently released to the least recently released.
C17_ListIsRecencyOrder ==
  /\ Len(MruOrder) = NBUF
  /\ {MruOrder[i] : i \in 1 .. Len(MruOrder)} = Bufs
  /\ \A n \in Nodes : prev[next[n]] = n /\ next[prev[n]] = n
  /\ \A u, v \in Bufs :
       (/\ ReleasedByBrelse(u)
        /\ ReleasedByBrelse(v)
        /\ PlaceIn(zeroSeq, u) < PlaceIn(zeroSeq, v))
         => PlaceIn(MruOrder, v) < PlaceIn(MruOrder, u)

\* C17 witness: two buffers are at refcnt 0, both released by brelse, and the
\* one released first was the first of the list after binit.
C17_Witness ==
  \E u, v \in Bufs :
    /\ u # v
    /\ ReleasedByBrelse(u)
    /\ ReleasedByBrelse(v)
    /\ PlaceIn(zeroSeq, u) < PlaceIn(zeroSeq, v)
    /\ u = NBUF - 1

\* Some step changes dev, blockno or valid of buffer x.
FieldsChange(x) ==
  \/ dev'[x] # dev[x]
  \/ blockno'[x] # blockno[x]
  \/ valid'[x] # valid[x]

\* Caller c takes the step.
Acts(c) == pc'[c] # pc[c]

\* C18 (as claimed): dev, blockno and valid of a buffer are changed only by a
\* caller that holds the buffer's sleeplock at the moment of the change.
C18_FieldsChangeUnderSleeplock ==
  [][\A x \in Bufs :
       FieldsChange(x) => \E c \in Callers : Acts(c) /\ sleeplock[x] = c]_vars

\* C18 (amended): valid is set by the caller that holds the buffer's
\* sleeplock; dev and blockno are changed, and valid is reset, only by bget
\* under bcache.lock, on a buffer with refcnt 0 whose sleeplock no caller
\* holds, the caller of bget not either.
C18_FieldsChangeUnderLocks ==
  [][\A x \in Bufs :
       FieldsChange(x) =>
         \E c \in Callers :
           /\ Acts(c)
           /\ \/ /\ sleeplock[x] = c
                 /\ valid'[x]
                 /\ dev'[x] = dev[x]
                 /\ blockno'[x] = blockno[x]
              \/ /\ lock = c
                 /\ refcnt[x] = 0
                 /\ sleeplock[x] = NOBODY
                 /\ ~valid'[x]]_vars

\* C18 witness: a caller holds, read from the device, a buffer that bget
\* recycled for it after another use, while the other buffer is in use too.
C18_Witness ==
  \E c, o \in Callers :
    /\ c # o
    /\ pc[c] = "held"
    /\ how[c] = "recycle_brelse"
    /\ valid[b[c]]
    /\ sleeplock[b[c]] = c
    /\ InUse(o)
    /\ b[o] # b[c]

\* The callers that have got buffer x from bget, those asleep in acquiresleep
\* too, and have not yet made the decrement of brelse.
Holders(x) ==
  {c \in Callers :
     b[c] = x /\ (Obtained(c) \/ pc[c] \in {"brelse_acq", "brelse_cs"})}

\* C19 (as claimed): whenever bcache.lock is free, the refcnt of every buffer
\* is the number of callers that have got it from bget and not yet made the
\* decrement of brelse, plus the number of bpin calls no bunpin has matched.
C19_RefcntCountsAlways ==
  lock = NOBODY =>
    \A x \in Bufs : refcnt[x] = Cardinality(Holders(x)) + pins[x]

\* C19 (amended): the same as long as every bunpin so far took back an earlier
\* bpin; then a buffer with refcnt 0 has no holder of its sleeplock and no
\* caller asleep in acquiresleep on it.
C19_RefcntCounts ==
  (lock = NOBODY /\ unmatched = 0) =>
    \A x \in Bufs :
      /\ refcnt[x] = Cardinality(Holders(x)) + pins[x]
      /\ refcnt[x] = 0 =>
           /\ sleeplock[x] = NOBODY
           /\ \A c \in Callers : ~(pc[c] = "bget_sleep" /\ b[c] = x)

\* C19 witness: with bcache.lock free and no unmatched bunpin, a buffer has a
\* holder, a caller asleep in acquiresleep and a pin, and the other buffer is
\* at refcnt 0 after a use.
C19_Witness ==
  /\ lock = NOBODY
  /\ unmatched = 0
  /\ \E x, y \in Bufs :
       /\ refcnt[x] = 3
       /\ pins[x] = 1
       /\ \E c \in Callers : pc[c] = "bget_sleep" /\ b[c] = x
       /\ refcnt[y] = 0
       /\ y \notin sinceInit

\* The number of buffers with a positive refcnt.
Referenced == Cardinality({x \in Bufs : refcnt[x] > 0})

=============================================================================
